---- MODULE Spec2Model ----
(***************************************************************************)
(* The X-Ray trace builder (lib/xray.ts): one XRay instance owns one       *)
(* XRayExecution; recordStep / recordEvaluationStep append steps,          *)
(* markComplete / markFailed close the execution.                          *)
(*                                                                         *)
(* Encoding of TypeScript values:                                          *)
(*   - an optional value (`x?: T`, or an omitted argument) is a sequence   *)
(*     of length at most one: Undefined == <<>>, Some(v) == <<v>>;         *)
(*   - strings are TLA+ strings, template literals are \o concatenations;  *)
(*   - Date.now() is the variable `now`, a non-decreasing clock: Tick      *)
(*     advances it for the builder, the route handlers take the time that  *)
(*     has passed in the step that reads it;                               *)
(*   - a decision's confidence (a float in the source) is carried in       *)
(*     hundredths (80 stands for 0.8): the builder never computes on it.   *)
(***************************************************************************)
EXTENDS Integers, Sequences, FiniteSets, TLC

VARIABLES
    execution,  \* XRay.execution, the one XRayExecution the builder owns
    now,        \* the value Date.now() returns
    lastCall,   \* the last method called on the builder, its arguments and
                \* the execution as it was just before the call
    recorded,   \* the log of the append calls made so far (method, reasoning)
    nCalls,     \* how many builder methods were called since construction
    snapshots,  \* what the serialize calls returned so far, each with the
                \* execution as it was when the call was made
    lastCompletion, \* the most recent markComplete call: the number of steps
                    \* at the call and its finalOutcome argument; Undefined
                    \* while markComplete was never called
    collection,     \* the documents of the "executions" collection, in
                    \* insertion order
    indexes,        \* the indexes createIndex has made on the collection
    cachedClient,   \* lib/db.ts: let cachedClient
    cachedDb,       \* lib/db.ts: let cachedDb
    clientsCreated, \* how many MongoClient objects were constructed
    clientsAtClose, \* clientsCreated as it was when closeDatabase last emptied
                    \* the cache (0 before the first closeDatabase)
    nextObjectId,   \* the value the next `new ObjectId()` yields
    requests,       \* the HTTP requests received so far, each with its body,
                    \* the await its handler has reached and its response
    isRunning,      \* the dashboard page (Home): const [isRunning, setIsRunning]
    reloads         \* how many times the page called window.location.reload()

storeVars == <<collection, indexes, cachedClient, cachedDb, clientsCreated,
               clientsAtClose, nextObjectId, requests>>

pageVars == <<isRunning, reloads>>

vars == <<execution, now, lastCall, recorded, nCalls, snapshots, lastCompletion,
          storeVars, pageVars>>

----------------------------------------------------------------------------
(* Bounds of the model *)

MaxSteps == 2

MaxClock == 2

MaxCalls == 3

----------------------------------------------------------------------------
(* Optional values *)

Undefined == <<>>

Some(v) == <<v>>

IsDefined(o) == o # Undefined

\* JavaScript truthiness of an optional string: undefined and "" are falsy
Truthy(o) == IsDefined(o) /\ o[1] # ""

----------------------------------------------------------------------------
(* The arguments callers pass *)

Names == {"Demo"}

SuppliedIds == {Undefined, Some(""), Some("exec_custom")}

RandomParts == {"k3j9x2m1q"}

StartTimes == {0, 1}

StepNames == {"a", "b"}

InputData == {[x |-> 1]}

OutputData == {[y |-> 2]}

Reasonings == {"did a"}

Decisions == {Undefined, Some([outcome |-> "filter", reason |-> "r", confidence |-> Some(80)])}

Metadatas == {Undefined}

Evaluations == {<<[id |-> Some("p1"), passed |-> TRUE, reason |-> "ok", metadata |-> Undefined]>>}

Confidences == {Undefined, Some(80)}

EvaluationParams ==
    [step : {"rank"}, input : InputData, evaluations : Evaluations,
     output : OutputData, reasoning : {"ranked"}, confidence : Confidences]

FinalOutcomes == {Undefined, Some("done")}

Errors == {Undefined, Some(""), Some("boom")}

----------------------------------------------------------------------------
(* The builder's methods, as functions from the execution before the call  *)
(* (and the clock value Date.now() returns) to the execution after it      *)

\* `exec_${Date.now()}_${Math.random().toString(36).substr(2, 9)}`
GeneratedId(t, rand) == "exec_" \o ToString(t) \o "_" \o rand

\* the constructor ignoring the caller's executionId
XRayConstructor_AlwaysGenerates(name, executionId, t, rand) ==
    [executionId |-> GeneratedId(t, rand),
     name        |-> name,
     status      |-> "in_progress",
     steps       |-> <<>>,
     createdAt   |-> t,
     completedAt |-> Undefined,
     duration    |-> Undefined,
     summary     |-> Undefined]

XRayConstructor(name, executionId, t, rand) ==
    [executionId |-> IF Truthy(executionId) THEN executionId[1] ELSE GeneratedId(t, rand),
     name        |-> name,
     status      |-> "in_progress",
     steps       |-> <<>>,
     createdAt   |-> t,
     completedAt |-> Undefined,
     duration    |-> Undefined,
     summary     |-> Undefined]

createXRay(name, executionId, t, rand) == XRayConstructor(name, executionId, t, rand)

\* recordStep numbering from the length before the push (a 0-based index)
recordStep_ZeroBased(e, stepName, input, output, reasoning, decision, metadata, t) ==
    [e EXCEPT !.steps = Append(@,
        [index     |-> Len(e.steps),
         step      |-> stepName,
         timestamp |-> t,
         input     |-> input,
         output    |-> output,
         reasoning |-> reasoning,
         decision  |-> decision,
         metadata  |-> metadata])]

\* recordStep with unshift in place of push
recordStep_Unshift(e, stepName, input, output, reasoning, decision, metadata, t) ==
    [e EXCEPT !.steps = <<[index     |-> Len(e.steps) + 1,
                           step      |-> stepName,
                           timestamp |-> t,
                           input     |-> input,
                           output    |-> output,
                           reasoning |-> reasoning,
                           decision  |-> decision,
                           metadata  |-> metadata]>> \o @]

\* recordStep refusing silently once the execution is closed
recordStep_RejectsClosed(e, stepName, input, output, reasoning, decision, metadata, t) ==
    IF e.status # "in_progress"
    THEN e
    ELSE [e EXCEPT !.steps = Append(@,
            [index     |-> Len(e.steps) + 1,
             step      |-> stepName,
             timestamp |-> t,
             input     |-> input,
             output    |-> output,
             reasoning |-> reasoning,
             decision  |-> decision,
             metadata  |-> metadata])]

\* recordStep keeping the summary's step count up to date
recordStep_RecomputesSummary(e, stepName, input, output, reasoning, decision, metadata, t) ==
    [e EXCEPT !.steps = Append(@,
        [index     |-> Len(e.steps) + 1,
         step      |-> stepName,
         timestamp |-> t,
         input     |-> input,
         output    |-> output,
         reasoning |-> reasoning,
         decision  |-> decision,
         metadata  |-> metadata]),
              !.summary = IF IsDefined(@)
                          THEN Some([@[1] EXCEPT !.totalSteps = Len(e.steps) + 1])
                          ELSE @]

\* recordStep putting the execution back in progress
recordStep_Reopens(e, stepName, input, output, reasoning, decision, metadata, t) ==
    [e EXCEPT !.status = "in_progress",
              !.completedAt = Undefined,
              !.duration = Undefined,
              !.steps = Append(@,
        [index     |-> Len(e.steps) + 1,
         step      |-> stepName,
         timestamp |-> t,
         input     |-> input,
         output    |-> output,
         reasoning |-> reasoning,
         decision  |-> decision,
         metadata  |-> metadata])]

\* recordStep stamping the time elapsed since createdAt
recordStep_ElapsedTimestamp(e, stepName, input, output, reasoning, decision, metadata, t) ==
    [e EXCEPT !.steps = Append(@,
        [index     |-> Len(e.steps) + 1,
         step      |-> stepName,
         timestamp |-> t - e.createdAt,
         input     |-> input,
         output    |-> output,
         reasoning |-> reasoning,
         decision  |-> decision,
         metadata  |-> metadata])]

recordStep(e, stepName, input, output, reasoning, decision, metadata, t) ==
    [e EXCEPT !.steps = Append(@,
        [index     |-> Len(e.steps) + 1,
         step      |-> stepName,
         timestamp |-> t,
         input     |-> input,
         output    |-> output,
         reasoning |-> reasoning,
         decision  |-> decision,
         metadata  |-> metadata])]

\* recordEvaluationStep not passing the confidence on
recordEvaluationStep_NoConfidence(e, params, t) ==
    recordStep(e, params.step, params.input, params.output, params.reasoning,
               Some([outcome |-> "evaluate", reason |-> "Evaluation completed",
                     confidence |-> Undefined]),
               Some([evaluations |-> params.evaluations]),
               t)

recordEvaluationStep(e, params, t) ==
    recordStep(e, params.step, params.input, params.output, params.reasoning,
               Some([outcome |-> "evaluate", reason |-> "Evaluation completed",
                     confidence |-> params.confidence]),
               Some([evaluations |-> params.evaluations]),
               t)

\* markComplete building the summary without the caller's outcome
markComplete_NoOutcome(e, finalOutcome, t) ==
    [e EXCEPT !.status      = "completed",
              !.completedAt = Some(t),
              !.duration    = Some(t - e.createdAt),
              !.summary     = Some([totalSteps   |-> Len(e.steps),
                                    finalOutcome |-> Undefined])]

\* markComplete guarded: a no-op on an execution that is already closed
markComplete_OnlyOnce(e, finalOutcome, t) ==
    IF e.status # "in_progress"
    THEN e
    ELSE [e EXCEPT !.status      = "completed",
                   !.completedAt = Some(t),
                   !.duration    = Some(t - e.createdAt),
                   !.summary     = Some([totalSteps   |-> Len(e.steps),
                                         finalOutcome |-> finalOutcome])]

\* markComplete stamping createdAt along with completedAt
markComplete_StampsCreatedAt(e, finalOutcome, t) ==
    [e EXCEPT !.status      = "completed",
              !.createdAt   = t,
              !.completedAt = Some(t),
              !.duration    = Some(t - e.createdAt),
              !.summary     = Some([totalSteps   |-> Len(e.steps),
                                    finalOutcome |-> finalOutcome])]

\* markComplete counting the closing itself as a step
markComplete_CountsClosing(e, finalOutcome, t) ==
    [e EXCEPT !.status      = "completed",
              !.completedAt = Some(t),
              !.duration    = Some(t - e.createdAt),
              !.summary     = Some([totalSteps   |-> Len(e.steps) + 1,
                                    finalOutcome |-> finalOutcome])]

markComplete(e, finalOutcome, t) ==
    [e EXCEPT !.status      = "completed",
              !.completedAt = Some(t),
              !.duration    = Some(t - e.createdAt),
              !.summary     = Some([totalSteps   |-> Len(e.steps),
                                    finalOutcome |-> finalOutcome])]

\* the annotation without its leading space
ErrorSuffix_NoSpace(error) == "[ERROR: " \o error \o "]"

\* ` [ERROR: ${error}]`
ErrorSuffix(error) == " [ERROR: " \o error \o "]"

\* markFailed taking the duration as the close time itself
markFailed_DurationIsNow(e, error, t) ==
    LET closed == [e EXCEPT !.status      = "failed",
                            !.completedAt = Some(t),
                            !.duration    = Some(t)]
    IN  IF Truthy(error) /\ Len(e.steps) > 0
        THEN [closed EXCEPT !.steps[Len(e.steps)].reasoning = @ \o ErrorSuffix(error[1])]
        ELSE closed

\* markFailed annotating the first step in place of the last
markFailed_FirstStep(e, error, t) ==
    LET closed == [e EXCEPT !.status      = "failed",
                            !.completedAt = Some(t),
                            !.duration    = Some(t - e.createdAt)]
    IN  IF Truthy(error) /\ Len(e.steps) > 0
        THEN [closed EXCEPT !.steps[1].reasoning = @ \o ErrorSuffix(error[1])]
        ELSE closed

\* markFailed made symmetric with markComplete: it writes a summary too
markFailed_WithSummary(e, error, t) ==
    LET closed == [e EXCEPT !.status      = "failed",
                            !.completedAt = Some(t),
                            !.duration    = Some(t - e.createdAt),
                            !.summary     = Some([totalSteps   |-> Len(e.steps),
                                                  finalOutcome |-> Undefined])]
    IN  IF Truthy(error) /\ Len(e.steps) > 0
        THEN [closed EXCEPT !.steps[Len(e.steps)].reasoning = @ \o ErrorSuffix(error[1])]
        ELSE closed

\* markFailed guarded: a no-op on an execution that is already closed
markFailed_OnlyOnce(e, error, t) ==
    IF e.status # "in_progress"
    THEN e
    ELSE LET closed == [e EXCEPT !.status      = "failed",
                                 !.completedAt = Some(t),
                                 !.duration    = Some(t - e.createdAt)]
         IN  IF Truthy(error) /\ Len(e.steps) > 0
             THEN [closed EXCEPT !.steps[Len(e.steps)].reasoning =
                                     @ \o ErrorSuffix(error[1])]
             ELSE closed

\* markFailed dropping the summary an earlier markComplete wrote
markFailed_ClearsSummary(e, error, t) ==
    LET closed == [e EXCEPT !.status      = "failed",
                            !.completedAt = Some(t),
                            !.duration    = Some(t - e.createdAt),
                            !.summary     = Undefined]
    IN  IF Truthy(error) /\ Len(e.steps) > 0
        THEN [closed EXCEPT !.steps[Len(e.steps)].reasoning = @ \o ErrorSuffix(error[1])]
        ELSE closed

\* markFailed testing `error !== undefined` in place of `error`
markFailed_AnnotatesEmptyError(e, error, t) ==
    LET closed == [e EXCEPT !.status      = "failed",
                            !.completedAt = Some(t),
                            !.duration    = Some(t - e.createdAt)]
    IN  IF IsDefined(error) /\ Len(e.steps) > 0
        THEN [closed EXCEPT !.steps[Len(e.steps)].reasoning = @ \o ErrorSuffix(error[1])]
        ELSE closed

markFailed(e, error, t) ==
    LET closed == [e EXCEPT !.status      = "failed",
                            !.completedAt = Some(t),
                            !.duration    = Some(t - e.createdAt)]
    IN  IF Truthy(error) /\ Len(e.steps) > 0
        THEN [closed EXCEPT !.steps[Len(e.steps)].reasoning = @ \o ErrorSuffix(error[1])]
        ELSE closed

\* A value a method hands out: a reference to the builder's own execution
\* object (`return this.execution`), or a copy made at the time of the call.
LiveReference == [kind |-> "reference"]

CopyOf(e) == [kind |-> "copy", value |-> e]

\* What a caller reading through a handed-out value sees, the builder's
\* execution being `e` at the time of the read
Observed(r, e) == IF r.kind = "reference" THEN e ELSE r.value

\* serialize returning a deep copy of the execution
serialize_DeepCopy(e) == CopyOf(e)

\* serialize projecting field by field into a new object, summary left out
serialize_WithoutSummary(e) == CopyOf([e EXCEPT !.summary = Undefined])

serialize(e) == LiveReference

getExecution(e) == LiveReference

----------------------------------------------------------------------------
(* The state machine: a caller driving one builder *)

Init ==
    \E name \in Names, id \in SuppliedIds, t \in StartTimes, rand \in RandomParts :
        /\ execution = createXRay(name, id, t, rand)
        /\ now = t
        /\ lastCall = [op |-> "constructor", name |-> name, executionId |-> id,
                       at |-> t]
        /\ recorded = <<>>
        /\ nCalls = 0
        /\ snapshots = <<>>
        /\ lastCompletion = Undefined
        /\ collection = <<>>
        /\ indexes = {}
        /\ cachedClient = Undefined
        /\ cachedDb = Undefined
        /\ clientsCreated = 0
        /\ clientsAtClose = 0
        /\ nextObjectId = 1
        /\ requests = <<>>
        /\ isRunning = FALSE
        /\ reloads = 0

Tick ==
    /\ now < MaxClock
    /\ now' = now + 1
    /\ UNCHANGED <<execution, lastCall, recorded, nCalls, snapshots, lastCompletion,
                   storeVars, pageVars>>

RecordStep ==
    /\ nCalls < MaxCalls
    /\ Len(execution.steps) < MaxSteps
    /\ \E stepName \in StepNames, input \in InputData, output \in OutputData,
          reasoning \in Reasonings, decision \in Decisions, metadata \in Metadatas :
        /\ execution' = recordStep(execution, stepName, input, output, reasoning,
                                   decision, metadata, now)
        /\ lastCall' = [op |-> "recordStep", stepName |-> stepName, input |-> input,
                        output |-> output, reasoning |-> reasoning,
                        decision |-> decision, metadata |-> metadata,
                        pre |-> execution, at |-> now]
        /\ recorded' = Append(recorded, [op |-> "recordStep", reasoning |-> reasoning])
    /\ nCalls' = nCalls + 1
    /\ UNCHANGED <<now, snapshots, lastCompletion, storeVars, pageVars>>

RecordEvaluationStep ==
    /\ nCalls < MaxCalls
    /\ Len(execution.steps) < MaxSteps
    /\ \E params \in EvaluationParams :
        /\ execution' = recordEvaluationStep(execution, params, now)
        /\ lastCall' = [op |-> "recordEvaluationStep", params |-> params,
                        pre |-> execution, at |-> now]
        /\ recorded' = Append(recorded, [op |-> "recordEvaluationStep",
                                         reasoning |-> params.reasoning])
    /\ nCalls' = nCalls + 1
    /\ UNCHANGED <<now, snapshots, lastCompletion, storeVars, pageVars>>

MarkComplete ==
    /\ nCalls < MaxCalls
    /\ \E finalOutcome \in FinalOutcomes :
        /\ execution' = markComplete(execution, finalOutcome, now)
        /\ lastCall' = [op |-> "markComplete", finalOutcome |-> finalOutcome,
                        pre |-> execution, at |-> now]
        /\ lastCompletion' = Some([totalSteps   |-> Len(execution.steps),
                                    finalOutcome |-> finalOutcome])
    /\ nCalls' = nCalls + 1
    /\ UNCHANGED <<now, recorded, snapshots, storeVars, pageVars>>

MarkFailed ==
    /\ nCalls < MaxCalls
    /\ \E error \in Errors :
        /\ execution' = markFailed(execution, error, now)
        /\ lastCall' = [op |-> "markFailed", error |-> error,
                        pre |-> execution, at |-> now]
    /\ nCalls' = nCalls + 1
    /\ UNCHANGED <<now, recorded, snapshots, lastCompletion, storeVars, pageVars>>

Serialize ==
    /\ nCalls < MaxCalls
    /\ lastCall' = [op |-> "serialize", returned |-> serialize(execution),
                    prev |-> lastCall, pre |-> execution, at |-> now]
    /\ snapshots' = Append(snapshots, [returned |-> serialize(execution),
                                       taken |-> execution, call |-> nCalls + 1])
    /\ nCalls' = nCalls + 1
    /\ UNCHANGED <<execution, now, recorded, lastCompletion, storeVars, pageVars>>

GetExecution ==
    /\ nCalls < MaxCalls
    /\ lastCall' = [op |-> "getExecution", returned |-> getExecution(execution),
                    pre |-> execution, at |-> now]
    /\ nCalls' = nCalls + 1
    /\ UNCHANGED <<execution, now, recorded, snapshots, lastCompletion, storeVars, pageVars>>

Next ==
    \/ Tick
    \/ RecordStep
    \/ RecordEvaluationStep
    \/ MarkComplete
    \/ MarkFailed
    \/ Serialize
    \/ GetExecution

Spec == Init /\ [][Next]_vars

----------------------------------------------------------------------------
(* ObjectIds on the wire. An ObjectId of the model is a natural number; its  *)
(* string form (toString, toHexString, JSON) is the 24 hex digits of that    *)
(* number, a string being the sequence of its characters. new ObjectId(s)    *)
(* takes a string of exactly 24 hex digits of either case and throws on      *)
(* anything else. (Strings of 12 characters, which some versions of the      *)
(* driver also take, are not among the inputs.)                              *)

ObjectIdHexLength == 24

HexDigits == <<"0", "1", "2", "3", "4", "5", "6", "7",
               "8", "9", "a", "b", "c", "d", "e", "f">>

UpperHexDigits == <<"0", "1", "2", "3", "4", "5", "6", "7",
                    "8", "9", "A", "B", "C", "D", "E", "F">>

IsHexDigit(c) == \E d \in 1..16 : c = HexDigits[d] \/ c = UpperHexDigits[d]

DigitValue(c) == (CHOOSE d \in 1..16 : c = HexDigits[d] \/ c = UpperHexDigits[d]) - 1

RECURSIVE HexOf(_, _)
\* the last `width` hex digits of n, lower case
HexOf(n, width) ==
    IF width = 0 THEN <<>>
    ELSE HexOf(n \div 16, width - 1) \o <<HexDigits[(n % 16) + 1]>>

\* objectId.toString()
ToHexString(objectId) == HexOf(objectId, ObjectIdHexLength)

RECURSIVE HexValue(_)
HexValue(str) ==
    IF str = <<>> THEN 0
    ELSE HexValue(SubSeq(str, 1, Len(str) - 1)) * 16 + DigitValue(str[Len(str)])

\* new ObjectId(id) that takes lower-case digits only
ParseObjectId_LowerCaseOnly(str) ==
    IF /\ Len(str) = ObjectIdHexLength
       /\ \A i \in 1..Len(str) : \E d \in 1..16 : str[i] = HexDigits[d]
    THEN Some(HexValue(str))
    ELSE Undefined

\* new ObjectId(id): Some(the ObjectId), or Undefined when it throws
ParseObjectId(str) ==
    IF Len(str) = ObjectIdHexLength /\ \A i \in 1..Len(str) : IsHexDigit(str[i])
    THEN Some(HexValue(str))
    ELSE Undefined

\* { ...execution, _id: execution._id.toString() }
WireDocument(doc) == [doc EXCEPT !._id = Some(ToHexString(doc._id[1]))]

\* collection.findOne({ _id: objectId }), answering with any stored document
findOne_FirstStored(docs, objectId) ==
    IF Len(docs) > 0 THEN Some(docs[1]) ELSE Undefined

\* collection.findOne({ _id: objectId }): Some(the document) or Undefined (null)
findOne(docs, objectId) ==
    IF \E i \in 1..Len(docs) : docs[i]._id = Some(objectId)
    THEN Some(docs[CHOOSE i \in 1..Len(docs) : docs[i]._id = Some(objectId)])
    ELSE Undefined

----------------------------------------------------------------------------
(* The storage side: lib/db.ts and the route handlers of                   *)
(* app/api/xray/executions, against one MongoDB collection.                *)
(*                                                                         *)
(* A document is a record with the fields _id, executionId, name, status,  *)
(* steps and createdAt. A field a request body leaves out is Undefined;    *)
(* MongoDB indexes a missing field as null, so two documents without an    *)
(* executionId have equal keys. insertOne is atomic on the server.         *)

MaxRequests == 2

\* .limit(50)
ListLimit == 50

BodyExecutionIds == {Some("e1"), Some("e2")}

BodyCreatedAts == {Undefined, Some(1)}

\* The values Date.now() yields while requests are handled
RequestTimes == {0, 2}

RequestBodies ==
    [_id : {Undefined}, executionId : BodyExecutionIds, name : {"Demo"},
     status : {"completed"}, steps : {<<>>}, createdAt : BodyCreatedAts]

\* createIndex({ executionId: 1 }, { unique: true }), made non-unique
ExecutionIdIndex_NotUnique == [key |-> "executionId", unique |-> FALSE]

\* createIndex({ executionId: 1 }, { unique: true })
ExecutionIdIndex == [key |-> "executionId", unique |-> TRUE]

\* createIndex({ createdAt: -1 })
CreatedAtIndex == [key |-> "createdAt", unique |-> FALSE]

\* createIndex({ status: 1 })
StatusIndex == [key |-> "status", unique |-> FALSE]

\* MongoDB's duplicate-key test: the _id index is always there and unique
DuplicateKey(docs, idxs, doc) ==
    \E i \in 1..Len(docs) :
        \/ docs[i]._id = doc._id
        \/ \E idx \in idxs : idx.unique /\ docs[i][idx.key] = doc[idx.key]

\* collection.insertOne(doc): the collection afterwards, and whether the
\* call resolved (ok) or threw a duplicate-key error
insertOne(docs, idxs, doc) ==
    IF DuplicateKey(docs, idxs, doc)
    THEN [ok |-> FALSE, collection |-> docs]
    ELSE [ok |-> TRUE, collection |-> Append(docs, doc)]

\* JavaScript truthiness of an optional number: undefined and 0 are falsy
TruthyNumber(o) == IsDefined(o) /\ o[1] # 0

\* the POST handler keeping the _id of the body when there is one
PostDocument_KeepsBodyId(body, objectId, t) ==
    [_id         |-> IF IsDefined(body._id) THEN ParseObjectId(body._id[1])
                                            ELSE Some(objectId),
     executionId |-> body.executionId,
     name        |-> body.name,
     status      |-> body.status,
     steps       |-> body.steps,
     createdAt   |-> IF TruthyNumber(body.createdAt) THEN body.createdAt[1] ELSE t]

\* { ...body, _id: new ObjectId(), createdAt: body.createdAt || Date.now() }
PostDocument(body, objectId, t) ==
    [_id         |-> Some(objectId),
     executionId |-> body.executionId,
     name        |-> body.name,
     status      |-> body.status,
     steps       |-> body.steps,
     createdAt   |-> IF TruthyNumber(body.createdAt) THEN body.createdAt[1] ELSE t]

Min(a, b) == IF a <= b THEN a ELSE b

\* The order in which ties on createdAt come out of a sort: MongoDB promises
\* none, so a find may see either
TieOrders == {"insertion", "reverse"}

\* sort({ createdAt: 1 }): oldest first
ComesBefore_Ascending(docs, tie, i, j) ==
    \/ docs[i].createdAt < docs[j].createdAt
    \/ /\ docs[i].createdAt = docs[j].createdAt
       /\ IF tie = "insertion" THEN i < j ELSE i > j

\* sort({ createdAt: -1 }): does the document at position i come out before
\* the one at position j
ComesBefore(docs, tie, i, j) ==
    \/ docs[i].createdAt > docs[j].createdAt
    \/ /\ docs[i].createdAt = docs[j].createdAt
       /\ IF tie = "insertion" THEN i < j ELSE i > j

\* find({}).sort({ createdAt: -1 })
SortedNewestFirst(docs, tie) ==
    LET order == SortSeq([i \in 1..Len(docs) |-> i],
                         LAMBDA i, j : ComesBefore(docs, tie, i, j))
    IN  [k \in 1..Len(docs) |-> docs[order[k]]]

\* .limit(n), dropped: the whole cursor is returned
Limit_None(docs, n) == docs

\* .limit(n)
Limit(docs, n) == SubSeq(docs, 1, Min(n, Len(docs)))

\* collection.find({}).sort({ createdAt: -1 }).limit(50).toArray()
FindRecent(docs, tie) == Limit(SortedNewestFirst(docs, tie), ListLimit)

builderVars == <<execution, lastCall, recorded, nCalls, snapshots, lastCompletion>>

\* The answer of a handler's catch block
FailureMessage(kind) ==
    CASE kind = "POST"   -> "Failed to save execution"
      [] kind = "GET"    -> "Failed to fetch executions"
      [] kind = "LOOKUP" -> "Failed to fetch execution"
      [] kind = "DEMO"   -> "Failed to run demo"

\* A request: kind is "POST" or "GET" (/api/xray/executions), "LOOKUP"
\* (GET /api/xray/executions/:id), "DEMO" (POST /api/demo/run-competitor-selection)
\* or "CLOSE" (a call of closeDatabase). body is the JSON body, or the id
\* parameter of a lookup; objectId is what `new ObjectId()` yielded; returned
\* is what the caller's await of the request came to.
NewRequest(kind, body) ==
    [kind |-> kind, body |-> body, pc |-> "connect", client |-> Undefined,
     objectId |-> Undefined, doc |-> Undefined, before |-> <<>>, after |-> <<>>,
     response |-> Undefined, returned |-> Undefined]

\* A POST /api/xray/executions arrives; request.json() has yielded its body
ReceivePost ==
    /\ Len(requests) < MaxRequests
    /\ \E body \in RequestBodies :
        requests' = Append(requests, NewRequest("POST", Some(body)))
    /\ UNCHANGED <<collection, indexes, cachedClient, cachedDb, clientsCreated,
                   nextObjectId, builderVars, pageVars, clientsAtClose, now>>

\* A GET /api/xray/executions arrives
ReceiveGet ==
    /\ Len(requests) < MaxRequests
    /\ requests' = Append(requests, NewRequest("GET", Undefined))
    /\ UNCHANGED <<collection, indexes, cachedClient, cachedDb, clientsCreated,
                   nextObjectId, builderVars, pageVars, clientsAtClose, now>>

\* connectToDatabase, up to `await client.connect()`
Connect(r) ==
    /\ requests[r].pc = "connect"
    /\ IF IsDefined(cachedClient) /\ IsDefined(cachedDb)
       THEN /\ requests' = [requests EXCEPT ![r].pc = "index"]
            /\ UNCHANGED clientsCreated
       ELSE /\ clientsCreated' = clientsCreated + 1
            /\ requests' = [requests EXCEPT ![r].pc = "connecting",
                                            ![r].client = Some(clientsCreated + 1)]
    /\ UNCHANGED <<collection, indexes, cachedClient, cachedDb, nextObjectId,
                   builderVars, pageVars, clientsAtClose, now>>

\* connectToDatabase, after `await client.connect()`
Connected(r) ==
    /\ requests[r].pc = "connecting"
    /\ cachedClient' = requests[r].client
    /\ cachedDb' = requests[r].client
    /\ requests' = [requests EXCEPT ![r].pc = "index"]
    /\ UNCHANGED <<collection, indexes, clientsCreated, nextObjectId, builderVars,
                   pageVars, clientsAtClose, now>>

\* getExecutionsCollection: the three createIndex calls. They only add to
\* the indexes and each is idempotent, so they are taken in one step.
CreateIndex(r) ==
    /\ requests[r].pc = "index"
    /\ indexes' = indexes \cup {ExecutionIdIndex, CreatedAtIndex, StatusIndex}
    /\ requests' = [requests EXCEPT ![r].pc =
            CASE requests[r].kind = "POST"   -> "build"
              [] requests[r].kind = "DEMO"   -> "build"
              [] requests[r].kind = "GET"    -> "find"
              [] requests[r].kind = "LOOKUP" -> "parse"]
    /\ UNCHANGED <<collection, cachedClient, cachedDb, clientsCreated, nextObjectId,
                   builderVars, pageVars, clientsAtClose, now>>

\* POST (and the demo route, which saves in the same way): the document is
\* built and insertOne is sent. Date.now() is read here, so the time that has
\* passed since the last read is taken in the same step: the clock moves to
\* any value not before its last one.
BuildDocument(r) ==
    /\ requests[r].pc = "build"
    /\ \E t \in {u \in RequestTimes : u >= now} :
        /\ now' = t
        /\ requests' = [requests EXCEPT
                ![r].objectId = Some(nextObjectId),
                ![r].doc = Some(PostDocument(requests[r].body[1], nextObjectId, t)),
                ![r].pc  = "insert"]
    /\ nextObjectId' = nextObjectId + 1
    /\ UNCHANGED <<collection, indexes, cachedClient, cachedDb, clientsCreated,
                   builderVars, pageVars, clientsAtClose>>

\* POST: the server applies insertOne; the handler answers 201 with the
\* document, or 500 from its catch block
InsertDocument(r) ==
    /\ requests[r].pc = "insert"
    /\ LET result == insertOne(collection, indexes, requests[r].doc[1])
       IN  /\ collection' = result.collection
           /\ requests' = [requests EXCEPT
                   ![r].before   = collection,
                   ![r].after    = result.collection,
                   ![r].response =
                       IF result.ok
                       THEN Some([status |-> 201, body |-> requests[r].doc])
                       ELSE Some([status |-> 500,
                                  body   |-> Some(FailureMessage(requests[r].kind))]),
                   ![r].pc = "done"]
    /\ UNCHANGED <<indexes, cachedClient, cachedDb, clientsCreated, nextObjectId,
                   builderVars, pageVars, clientsAtClose, now>>

\* GET: the server runs the query; the handler answers with the array
FindDocuments(r) ==
    /\ requests[r].pc = "find"
    /\ \E tie \in TieOrders :
        requests' = [requests EXCEPT
            ![r].before   = collection,
            ![r].after    = collection,
            ![r].response = Some([status |-> 200, body |-> FindRecent(collection, tie)]),
            ![r].pc = "done"]
    /\ UNCHANGED <<collection, indexes, cachedClient, cachedDb, clientsCreated,
                   nextObjectId, builderVars, pageVars, clientsAtClose, now>>

\* No builder is driven while the store is exercised
BuilderIdle ==
    /\ execution = createXRay("Demo", Undefined, 0, "k3j9x2m1q")
    /\ lastCall = [op |-> "constructor", name |-> "Demo", executionId |-> Undefined,
                   at |-> 0]
    /\ recorded = <<>>
    /\ nCalls = 0
    /\ snapshots = <<>>
    /\ lastCompletion = Undefined

\* No dashboard page is open
PageIdle ==
    /\ isRunning = FALSE
    /\ reloads = 0

StoreInit ==
    /\ BuilderIdle
    /\ now = 0
    /\ collection = <<>>
    /\ indexes = {}
    /\ cachedClient = Undefined
    /\ cachedDb = Undefined
    /\ clientsCreated = 0
    /\ clientsAtClose = 0
    /\ nextObjectId = 1
    /\ requests = <<>>
    /\ PageIdle

StoreNext ==
    \/ ReceivePost
    \/ ReceiveGet
    \/ \E r \in 1..Len(requests) : Connect(r)
    \/ \E r \in 1..Len(requests) : Connected(r)
    \/ \E r \in 1..Len(requests) : CreateIndex(r)
    \/ \E r \in 1..Len(requests) : BuildDocument(r)
    \/ \E r \in 1..Len(requests) : InsertDocument(r)
    \/ \E r \in 1..Len(requests) : FindDocuments(r)

StoreSpec == StoreInit /\ [][StoreNext]_vars

\* The list operation on a collection that was filled earlier: one GET
\* against 0..MaxStored stored documents

MaxStored == 52

\* How createdAt runs over the stored documents, in insertion order
CreatedAtPatterns == {"ascending", "descending", "equal", "mixed"}

StoredCreatedAt(pattern, i) ==
    CASE pattern = "ascending"  -> i
      [] pattern = "descending" -> MaxStored + 1 - i
      [] pattern = "equal"      -> 1
      [] pattern = "mixed"      -> (i * 7) % 5

\* The documents n earlier saves have left, distinct executionIds
StoredDocuments(n, pattern) ==
    [i \in 1..n |->
        [_id         |-> Some(i),
         executionId |-> Some("exec_" \o ToString(i)),
         name        |-> "Demo",
         status      |-> "completed",
         steps       |-> <<>>,
         createdAt   |-> StoredCreatedAt(pattern, i)]]

ListInit ==
    /\ BuilderIdle
    /\ now = 0
    /\ \E n \in 0..MaxStored, pattern \in CreatedAtPatterns :
        /\ collection = StoredDocuments(n, pattern)
        /\ nextObjectId = n + 1
    /\ indexes = {}
    /\ cachedClient = Undefined
    /\ cachedDb = Undefined
    /\ clientsCreated = 0
    /\ clientsAtClose = 0
    /\ requests = <<NewRequest("GET", Undefined)>>
    /\ PageIdle

ListNext ==
    \/ \E r \in 1..Len(requests) : Connect(r)
    \/ \E r \in 1..Len(requests) : Connected(r)
    \/ \E r \in 1..Len(requests) : CreateIndex(r)
    \/ \E r \in 1..Len(requests) : FindDocuments(r)

ListSpec == ListInit /\ [][ListNext]_vars

----------------------------------------------------------------------------
(* Failure of the database. StoreSpec and ListSpec are about requests the    *)
(* database serves; the lookup, the save, the connection cache and the demo  *)
(* are also run against a database that cannot be reached.                   *)

\* connectToDatabase: `await client.connect()` rejects (the database cannot
\* be reached); nothing is cached and the handler's catch block answers 500
ConnectFails(r) ==
    /\ requests[r].pc = "connecting"
    /\ requests' = [requests EXCEPT
            ![r].before   = collection,
            ![r].after    = collection,
            ![r].response = Some([status |-> 500,
                                  body   |-> Some(FailureMessage(requests[r].kind))]),
            ![r].pc = "done"]
    /\ UNCHANGED <<collection, indexes, cachedClient, cachedDb, clientsCreated,
                   nextObjectId, builderVars, pageVars, clientsAtClose, now>>

----------------------------------------------------------------------------
(* The point lookup, GET /api/xray/executions/:id *)

MaxLookupStored == 11

UpperCase(str) ==
    [i \in 1..Len(str) |->
        IF IsHexDigit(str[i]) THEN UpperHexDigits[DigitValue(str[i]) + 1] ELSE str[i]]

\* The id parameters asked for: well-formed ones in either case (stored or
\* not, depending on how many documents there are), and malformed ones: too
\* short, too long, not hex
LookupIds ==
    {ToHexString(10), UpperCase(ToHexString(10)), ToHexString(11), ToHexString(12),
     <<"a", "b", "c">>,
     ToHexString(10) \o <<"0">>,
     [ToHexString(10) EXCEPT ![ObjectIdHexLength] = "g"]}

\* `objectId = new ObjectId(id)` in its own try: 400 when it throws
ParseId(r) ==
    /\ requests[r].pc = "parse"
    /\ LET parsed == ParseObjectId(requests[r].body[1])
       IN  requests' = [requests EXCEPT ![r] =
               IF IsDefined(parsed)
               THEN [@ EXCEPT !.objectId = parsed, !.pc = "findOne"]
               ELSE [@ EXCEPT !.before   = collection,
                              !.after    = collection,
                              !.response = Some([status |-> 400,
                                                 body   |-> Some("Invalid execution ID")]),
                              !.pc = "done"]]
    /\ UNCHANGED <<collection, indexes, cachedClient, cachedDb, clientsCreated,
                   nextObjectId, builderVars, pageVars, clientsAtClose, now>>

\* `await collection.findOne({ _id: objectId })` and the answer: 404 or the
\* document with its _id as a string
FindOne(r) ==
    /\ requests[r].pc = "findOne"
    /\ LET execution_ == findOne(collection, requests[r].objectId[1])
       IN  requests' = [requests EXCEPT
               ![r].before   = collection,
               ![r].after    = collection,
               ![r].response =
                   IF IsDefined(execution_)
                   THEN Some([status |-> 200, body |-> Some(WireDocument(execution_[1]))])
                   ELSE Some([status |-> 404, body |-> Some("Execution not found")]),
               ![r].pc = "done"]
    /\ UNCHANGED <<collection, indexes, cachedClient, cachedDb, clientsCreated,
                   nextObjectId, builderVars, pageVars, clientsAtClose, now>>

\* One lookup against 0..MaxLookupStored stored documents
LookupInit ==
    /\ BuilderIdle
    /\ PageIdle
    /\ now = 0
    /\ \E n \in 0..MaxLookupStored :
        /\ collection = StoredDocuments(n, "ascending")
        /\ nextObjectId = n + 1
    /\ indexes = {}
    /\ cachedClient = Undefined
    /\ cachedDb = Undefined
    /\ clientsCreated = 0
    /\ clientsAtClose = 0
    /\ \E id \in LookupIds : requests = <<NewRequest("LOOKUP", Some(id))>>

LookupNext ==
    \/ \E r \in 1..Len(requests) : Connect(r)
    \/ \E r \in 1..Len(requests) : Connected(r)
    \/ \E r \in 1..Len(requests) : ConnectFails(r)
    \/ \E r \in 1..Len(requests) : CreateIndex(r)
    \/ \E r \in 1..Len(requests) : ParseId(r)
    \/ \E r \in 1..Len(requests) : FindOne(r)

LookupSpec == LookupInit /\ [][LookupNext]_vars

----------------------------------------------------------------------------
(* Saving a snapshot: saveExecution (lib/persistence.ts) posts it to        *)
(* /api/xray/executions and returns the _id of the answer                    *)

MaxSaves == 1

MaxSaveStored == 1

\* The snapshots handed to saveExecution: with and without an _id (as a
\* string, the way an earlier answer carried it), with an executionId that
\* is stored already or is new
SaveSnapshots ==
    [_id : {Undefined, Some(ToHexString(1)), Some(ToHexString(7))},
     executionId : {Some("exec_1"), Some("exec_new")}, name : {"Demo"},
     status : {"completed"}, steps : {<<>>}, createdAt : {Some(1)}]

\* response.ok
ResponseOk(response) == response.status >= 200 /\ response.status <= 299

\* saveExecution(execution), up to `await fetch(...)`
SaveExecution ==
    /\ Len(requests) < MaxSaves
    /\ \E snapshot \in SaveSnapshots :
        requests' = Append(requests, NewRequest("POST", Some(snapshot)))
    /\ UNCHANGED <<collection, indexes, cachedClient, cachedDb, clientsCreated,
                   nextObjectId, builderVars, pageVars, clientsAtClose, now>>

\* saveExecution: fetch rejects (the request never reaches the server) and
\* the rejection goes to the caller
SaveExecutionFetchFails(r) ==
    /\ requests[r].kind = "POST"
    /\ requests[r].pc = "connect"
    /\ requests' = [requests EXCEPT
            ![r].before   = collection,
            ![r].after    = collection,
            ![r].returned = Some([threw |-> TRUE, error |-> "fetch failed"]),
            ![r].pc = "settled"]
    /\ UNCHANGED <<collection, indexes, cachedClient, cachedDb, clientsCreated,
                   nextObjectId, builderVars, pageVars, clientsAtClose, now>>

\* saveExecution, after `await fetch(...)`: throws unless response.ok, else
\* returns data._id, the _id of the JSON answer (an ObjectId goes over the
\* wire as its hex string)
SaveExecutionReturns(r) ==
    /\ requests[r].kind = "POST"
    /\ requests[r].pc = "done"
    /\ requests' = [requests EXCEPT
            ![r].returned =
                IF ResponseOk(requests[r].response[1])
                THEN Some([threw |-> FALSE,
                           value |-> ToHexString(requests[r].response[1].body[1]._id[1])])
                ELSE Some([threw |-> TRUE, error |-> "Failed to save execution"]),
            ![r].pc = "settled"]
    /\ UNCHANGED <<collection, indexes, cachedClient, cachedDb, clientsCreated,
                   nextObjectId, builderVars, pageVars, clientsAtClose, now>>

SaveInit ==
    /\ BuilderIdle
    /\ PageIdle
    /\ now = 0
    /\ \E n \in 0..MaxSaveStored :
        /\ collection = StoredDocuments(n, "ascending")
        /\ nextObjectId = n + 1
    /\ indexes = {}
    /\ cachedClient = Undefined
    /\ cachedDb = Undefined
    /\ clientsCreated = 0
    /\ clientsAtClose = 0
    /\ requests = <<>>

SaveNext ==
    \/ SaveExecution
    \/ \E r \in 1..Len(requests) : SaveExecutionFetchFails(r)
    \/ \E r \in 1..Len(requests) : Connect(r)
    \/ \E r \in 1..Len(requests) : Connected(r)
    \/ \E r \in 1..Len(requests) : ConnectFails(r)
    \/ \E r \in 1..Len(requests) : CreateIndex(r)
    \/ \E r \in 1..Len(requests) : BuildDocument(r)
    \/ \E r \in 1..Len(requests) : InsertDocument(r)
    \/ \E r \in 1..Len(requests) : SaveExecutionReturns(r)

SaveSpec == SaveInit /\ [][SaveNext]_vars

----------------------------------------------------------------------------
(* The connection cache of lib/db.ts under concurrent handlers, with        *)
(* closeDatabase called while they run                                       *)

MaxConnRequests == 2

MaxCloses == 1

\* How many of the requests are calls of closeDatabase
Closes == Cardinality({r \in 1..Len(requests) : requests[r].kind = "CLOSE"})

\* A GET /api/xray/executions arrives
ReceiveListRequest ==
    /\ Len(requests) - Closes < MaxConnRequests
    /\ requests' = Append(requests, NewRequest("GET", Undefined))
    /\ UNCHANGED <<collection, indexes, cachedClient, cachedDb, clientsCreated,
                   nextObjectId, builderVars, pageVars, clientsAtClose, now>>

\* closeDatabase() is called
CallCloseDatabase ==
    /\ Closes < MaxCloses
    /\ requests' = Append(requests, [NewRequest("CLOSE", Undefined) EXCEPT !.pc = "close"])
    /\ UNCHANGED <<collection, indexes, cachedClient, cachedDb, clientsCreated,
                   nextObjectId, builderVars, pageVars, clientsAtClose, now>>

\* closeDatabase: `if (cachedClient)`, up to `await cachedClient.close()`;
\* with nothing cached it returns at once. A call that has returned keeps,
\* as its response, the cache as it left it.
CloseDatabase(r) ==
    /\ requests[r].pc = "close"
    /\ requests' = [requests EXCEPT ![r] =
            IF IsDefined(cachedClient)
            THEN [@ EXCEPT !.client = cachedClient, !.pc = "closing"]
            ELSE [@ EXCEPT !.response = Some([cachedClient |-> cachedClient,
                                              cachedDb     |-> cachedDb]),
                           !.pc = "done"]]
    /\ UNCHANGED <<collection, indexes, cachedClient, cachedDb, clientsCreated,
                   nextObjectId, builderVars, pageVars, clientsAtClose, now>>

\* closeDatabase, after `await cachedClient.close()`: both cache variables
\* are set to null
DatabaseClosed(r) ==
    /\ requests[r].pc = "closing"
    /\ cachedClient' = Undefined
    /\ cachedDb' = Undefined
    /\ clientsAtClose' = clientsCreated
    /\ requests' = [requests EXCEPT
            ![r].response = Some([cachedClient |-> Undefined, cachedDb |-> Undefined]),
            ![r].pc = "done"]
    /\ UNCHANGED <<collection, indexes, clientsCreated, nextObjectId, builderVars,
                   pageVars, now>>

ConnInit == StoreInit

ConnNext ==
    \/ ReceiveListRequest
    \/ CallCloseDatabase
    \/ \E r \in 1..Len(requests) : Connect(r)
    \/ \E r \in 1..Len(requests) : Connected(r)
    \/ \E r \in 1..Len(requests) : ConnectFails(r)
    \/ \E r \in 1..Len(requests) : CreateIndex(r)
    \/ \E r \in 1..Len(requests) : FindDocuments(r)
    \/ \E r \in 1..Len(requests) : CloseDatabase(r)
    \/ \E r \in 1..Len(requests) : DatabaseClosed(r)

ConnSpec == ConnInit /\ [][ConnNext]_vars

----------------------------------------------------------------------------
(* The dashboard page (Home) and its "Run Demo Execution" button, with the  *)
(* demo route POST /api/demo/run-competitor-selection behind it. The button *)
(* is disabled while isRunning; window.location.reload() loads the page     *)
(* anew, isRunning being false again (useState(false)).                     *)

MaxDemoRuns == 3

\* The demo route's pipeline: five steps on a new builder, markComplete,
\* serialize. It has no await, so Date.now() is the same for all of it. The
\* payloads carry the counts the mock data gives (8 products, 5 of them pass
\* the filters, none of those is an accessory).
DemoExecution(t, rand) ==
    LET xray0 == createXRay("Competitor Product Selection Demo", Undefined, t, rand)
        xray1 == recordStep(xray0, "keyword_generation",
                     [category |-> "Sports & Outdoors"], [model |-> "gpt-4-mock"],
                     "Extracted key product attributes", Undefined, Undefined, t)
        xray2 == recordStep(xray1, "candidate_search",
                     [limit |-> 50], [total_results |-> 2847, candidates_fetched |-> 8],
                     "Fetched top 8 results by relevance", Undefined, Undefined, t)
        xray3 == recordStep(xray2, "apply_filters",
                     [candidates_count |-> 8], [total_evaluated |-> 8, passed |-> 5, failed |-> 3],
                     "Narrowed candidates from 8 to 5",
                     Some([outcome |-> "filter",
                           reason  |-> "5 candidates passed all filter criteria",
                           confidence |-> Some(100)]),
                     Some([evaluations |-> 8]), t)
        xray4 == recordEvaluationStep(xray3,
                     [step        |-> "llm_relevance_evaluation",
                      input       |-> [candidates_count |-> 5],
                      evaluations |-> 5,
                      output      |-> [total_evaluated |-> 5, confirmed_competitors |-> 5,
                                       false_positives_removed |-> 0],
                      reasoning   |-> "LLM identified and removed 0 false positives",
                      confidence  |-> Some(95)], t)
        xray5 == recordStep(xray4, "rank_and_select",
                     [candidates_count |-> 5], [selected_competitor |-> "B005"],
                     "Ranked 5 competitors",
                     Some([outcome |-> "select",
                           reason  |-> "Selected top-ranked competitor with highest composite score",
                           confidence |-> Some(93)]),
                     Some([ranked_candidates |-> 3]), t)
        closed == markComplete(xray5, Some("Selected YETI Rambler 32oz as top competitor"), t)
    IN  Observed(serialize(closed), closed)

\* The fields of a serialized execution the stored document keeps
DemoSnapshot(e) ==
    [_id |-> Undefined, executionId |-> Some(e.executionId), name |-> e.name,
     status |-> e.status, steps |-> e.steps, createdAt |-> Some(e.createdAt)]

\* runDemo, up to `await fetch(...)`: the button can be clicked only while
\* it is enabled
RunDemo ==
    /\ ~isRunning
    /\ Len(requests) < MaxDemoRuns
    /\ isRunning' = TRUE
    /\ requests' = Append(requests, [NewRequest("DEMO", Undefined) EXCEPT !.pc = "fetch"])
    /\ UNCHANGED <<collection, indexes, cachedClient, cachedDb, clientsCreated,
                   nextObjectId, builderVars, reloads, clientsAtClose, now>>

\* runDemo: fetch rejects (a network failure); the catch block resets isRunning
RunDemoFetchFails(r) ==
    /\ requests[r].kind = "DEMO"
    /\ requests[r].pc = "fetch"
    /\ isRunning' = FALSE
    /\ requests' = [requests EXCEPT
            ![r].returned = Some([threw |-> TRUE, error |-> "fetch failed"]),
            ![r].pc = "settled"]
    /\ UNCHANGED <<collection, indexes, cachedClient, cachedDb, clientsCreated,
                   nextObjectId, builderVars, reloads, clientsAtClose, now>>

\* The demo route, up to `await getExecutionsCollection()`
RunDemoPipeline(r) ==
    /\ requests[r].kind = "DEMO"
    /\ requests[r].pc = "fetch"
    /\ \E t \in {u \in RequestTimes : u >= now}, rand \in RandomParts :
        /\ now' = t
        /\ requests' = [requests EXCEPT
                ![r].body = Some(DemoSnapshot(DemoExecution(t, rand))),
                ![r].pc   = "connect"]
    /\ UNCHANGED <<collection, indexes, cachedClient, cachedDb, clientsCreated,
                   nextObjectId, builderVars, pageVars, clientsAtClose>>

\* runDemo, after `await fetch(...)` has resolved: the page is reloaded when
\* response.ok; otherwise the function ends, nothing being assigned
RunDemoSettles(r) ==
    /\ requests[r].kind = "DEMO"
    /\ requests[r].pc = "done"
    /\ IF ResponseOk(requests[r].response[1])
       THEN /\ isRunning' = FALSE
            /\ reloads' = reloads + 1
       ELSE UNCHANGED <<isRunning, reloads>>
    /\ requests' = [requests EXCEPT
            ![r].returned = Some([threw |-> FALSE,
                                  ok    |-> ResponseOk(requests[r].response[1])]),
            ![r].pc = "settled"]
    /\ UNCHANGED <<collection, indexes, cachedClient, cachedDb, clientsCreated,
                   nextObjectId, builderVars, clientsAtClose, now>>

DemoInit == StoreInit

DemoNext ==
    \/ RunDemo
    \/ \E r \in 1..Len(requests) : RunDemoFetchFails(r)
    \/ \E r \in 1..Len(requests) : RunDemoPipeline(r)
    \/ \E r \in 1..Len(requests) : Connect(r)
    \/ \E r \in 1..Len(requests) : Connected(r)
    \/ \E r \in 1..Len(requests) : ConnectFails(r)
    \/ \E r \in 1..Len(requests) : CreateIndex(r)
    \/ \E r \in 1..Len(requests) : BuildDocument(r)
    \/ \E r \in 1..Len(requests) : InsertDocument(r)
    \/ \E r \in 1..Len(requests) : RunDemoSettles(r)

\* Every await settles: the fetch reaches the server or fails, the connect
\* resolves or rejects, the database answers, and the page's continuation
\* runs once the answer is there. Nothing makes the user click.
DemoFairness ==
    /\ WF_vars(\E r \in 1..Len(requests) : RunDemoFetchFails(r) \/ RunDemoPipeline(r))
    /\ WF_vars(\E r \in 1..Len(requests) : Connect(r))
    /\ WF_vars(\E r \in 1..Len(requests) : Connected(r) \/ ConnectFails(r))
    /\ WF_vars(\E r \in 1..Len(requests) : CreateIndex(r))
    /\ WF_vars(\E r \in 1..Len(requests) : BuildDocument(r))
    /\ WF_vars(\E r \in 1..Len(requests) : InsertDocument(r))
    /\ WF_vars(\E r \in 1..Len(requests) : RunDemoSettles(r))

DemoSpec == DemoInit /\ [][DemoNext]_vars /\ DemoFairness

----------------------------------------------------------------------------
(* Properties of the trace builder *)

IsAppend(op) == op \in {"recordStep", "recordEvaluationStep"}

\* C1: after N append calls (recordStep or recordEvaluationStep, in any mix)
\* steps has length exactly N and the step at position i (counting from 1)
\* carries index i: dense, strictly increasing, never reused.
C1_DenseIndexes ==
    /\ Len(execution.steps) = Len(recorded)
    /\ \A i \in 1..Len(execution.steps) : execution.steps[i].index = i

C1_Witness ==
    /\ Len(execution.steps) = 2
    /\ recorded[1].op = "recordEvaluationStep"
    /\ recorded[2].op = "recordStep"

\* C2: completedAt, duration and summary are all undefined while status is
\* in_progress, and all three are defined whenever status is not in_progress.
C2_TerminalFieldsDefined ==
    IF execution.status = "in_progress"
    THEN /\ execution.completedAt = Undefined
         /\ execution.duration = Undefined
         /\ execution.summary = Undefined
    ELSE /\ IsDefined(execution.completedAt)
         /\ IsDefined(execution.duration)
         /\ IsDefined(execution.summary)

\* C3: whenever the execution is closed, createdAt <= completedAt and
\* duration = completedAt - createdAt exactly (so duration >= 0), also after
\* repeated closes and appends after closing.
C3_DurationExact ==
    execution.status # "in_progress" =>
        /\ IsDefined(execution.completedAt)
        /\ IsDefined(execution.duration)
        /\ execution.createdAt <= execution.completedAt[1]
        /\ execution.duration[1] = execution.completedAt[1] - execution.createdAt
        /\ execution.duration[1] >= 0

C3_Witness ==
    /\ IsAppend(lastCall.op)
    /\ lastCall.pre.status = "failed"
    /\ execution.status = "failed"
    /\ execution.createdAt = 1
    /\ execution.duration = Some(1)

\* C4: immediately after markComplete(outcome) status is completed,
\* summary.totalSteps is the length of steps at the moment of the call and
\* summary.finalOutcome is outcome (absent when omitted), whatever the state
\* before the call.
C4_SummaryAtClose ==
    lastCall.op = "markComplete" =>
        /\ execution.status = "completed"
        /\ IsDefined(execution.summary)
        /\ execution.summary[1].totalSteps = Len(lastCall.pre.steps)
        /\ execution.summary[1].totalSteps = Len(execution.steps)
        /\ execution.summary[1].finalOutcome = lastCall.finalOutcome

C4_Witness ==
    /\ lastCall.op = "markComplete"
    /\ lastCall.finalOutcome = Some("done")
    /\ lastCall.pre.status = "failed"
    /\ Len(lastCall.pre.steps) = 1

\* The steps markFailed(error) is said to leave: the steps before the call
\* with `suffix` appended to the reasoning of the last one.
AnnotatedLast(steps, suffix) ==
    [i \in 1..Len(steps) |->
        IF i = Len(steps)
        THEN [steps[i] EXCEPT !.reasoning = steps[i].reasoning \o suffix]
        ELSE steps[i]]

\* C5 as stated: markFailed(error) on an execution with at least one step
\* appends exactly " [ERROR: " + error + "]" to the reasoning of the last
\* step and leaves every other step, and the number and order of steps,
\* untouched.
C5_AsStated ==
    (/\ lastCall.op = "markFailed"
     /\ IsDefined(lastCall.error)
     /\ Len(lastCall.pre.steps) >= 1)
    => execution.steps =
         AnnotatedLast(lastCall.pre.steps, " [ERROR: " \o lastCall.error[1] \o "]")

\* C5 (amended): markFailed(error) with a non-empty error message on an
\* execution with at least one step appends exactly " [ERROR: " + error + "]"
\* to the reasoning of the last step and leaves every other step, and the
\* number and order of steps, untouched.
C5_NonEmptyErrorAnnotatesLast ==
    (/\ lastCall.op = "markFailed"
     /\ IsDefined(lastCall.error)
     /\ lastCall.error[1] # ""
     /\ Len(lastCall.pre.steps) >= 1)
    => execution.steps =
         AnnotatedLast(lastCall.pre.steps, " [ERROR: " \o lastCall.error[1] \o "]")

C5_Witness ==
    /\ lastCall.op = "markFailed"
    /\ lastCall.error = Some("boom")
    /\ Len(lastCall.pre.steps) = 2
    /\ execution.steps[1] = lastCall.pre.steps[1]
    /\ execution.steps[2].reasoning = "did a [ERROR: boom]"

\* C6: markFailed(error) on an execution with zero steps drops the error
\* message: only status (to failed), completedAt and duration change; steps
\* stays empty and executionId, name, createdAt and summary are unchanged.
C6_NoStepsDropsError ==
    (lastCall.op = "markFailed" /\ Len(lastCall.pre.steps) = 0) =>
        /\ execution.status = "failed"
        /\ execution.steps = <<>>
        /\ execution.executionId = lastCall.pre.executionId
        /\ execution.name = lastCall.pre.name
        /\ execution.createdAt = lastCall.pre.createdAt
        /\ execution.summary = lastCall.pre.summary
        /\ DOMAIN execution = DOMAIN lastCall.pre

C6_Witness ==
    /\ lastCall.op = "markFailed"
    /\ lastCall.error = Some("boom")
    /\ Len(lastCall.pre.steps) = 0
    /\ IsDefined(lastCall.pre.summary)
    /\ execution.completedAt # lastCall.pre.completedAt

\* C7: create an execution, append one step, call markFailed("boom"): the
\* reasoning of steps[0] is the reasoning given at the append followed by
\* " [ERROR: boom]", status is failed and summary is absent.
C7_FailedScenario ==
    (/\ lastCall.op = "markFailed"
     /\ lastCall.error = Some("boom")
     /\ lastCall.pre.status = "in_progress"
     /\ Len(lastCall.pre.steps) = 1)
    => /\ Len(execution.steps) = 1
       /\ execution.steps[1].reasoning = recorded[1].reasoning \o " [ERROR: boom]"
       /\ execution.status = "failed"
       /\ execution.summary = Undefined

C7_Witness ==
    /\ lastCall.op = "markFailed"
    /\ lastCall.error = Some("boom")
    /\ lastCall.pre.status = "in_progress"
    /\ nCalls = 2
    /\ Len(execution.steps) = 1
    /\ execution.steps[1].reasoning = "ranked [ERROR: boom]"

\* C8: completedAt and duration are set exactly once: once they are defined,
\* no later operation (recordStep, recordEvaluationStep, markComplete,
\* markFailed) changes their values.
C8_SetExactlyOnce ==
    (lastCall.op # "constructor" /\ IsDefined(lastCall.pre.completedAt)) =>
        /\ execution.completedAt = lastCall.pre.completedAt
        /\ execution.duration = lastCall.pre.duration

\* C9: steps is append-only: for every operation the steps before it are a
\* prefix of the steps after it, each retained step identical in every field,
\* except the reasoning of the last step when markFailed is called with an
\* error message.
C9_AppendOnly ==
    lastCall.op # "constructor" =>
        LET before == lastCall.pre.steps
            after  == execution.steps
        IN  /\ Len(before) <= Len(after)
            /\ \A i \in 1..Len(before) :
                IF /\ lastCall.op = "markFailed"
                   /\ IsDefined(lastCall.error)
                   /\ i = Len(before)
                THEN [after[i] EXCEPT !.reasoning = before[i].reasoning] = before[i]
                ELSE after[i] = before[i]

C9_Witness ==
    /\ lastCall.op = "markFailed"
    /\ lastCall.error = Some("boom")
    /\ Len(lastCall.pre.steps) = 2
    /\ execution.steps[1] = lastCall.pre.steps[1]
    /\ execution.steps[2] # lastCall.pre.steps[2]
    /\ execution.steps[1].step = "rank"
    /\ execution.steps[2].step = "b"

\* C10: a step's reasoning is mutated at most once after the append: no
\* step's reasoning ever carries more than one " [ERROR: ...]" suffix added
\* by the builder.
C10_AtMostOneAnnotation ==
    \A i \in 1..Len(execution.steps) :
        \/ execution.steps[i].reasoning = recorded[i].reasoning
        \/ \E error \in Errors :
            /\ IsDefined(error)
            /\ execution.steps[i].reasoning =
                   recorded[i].reasoning \o " [ERROR: " \o error[1] \o "]"

\* C11: recordEvaluationStep({step, input, evaluations, output, reasoning,
\* confidence}) leaves the execution exactly as recordStep(step, input, output,
\* reasoning, {outcome: "evaluate", reason: "Evaluation completed", confidence},
\* {evaluations}) would from the same starting state and clock value.
C11_EvaluationStepIsRecordStep ==
    lastCall.op = "recordEvaluationStep" =>
        execution =
            recordStep(lastCall.pre,
                       lastCall.params.step, lastCall.params.input,
                       lastCall.params.output, lastCall.params.reasoning,
                       Some([outcome    |-> "evaluate",
                             reason     |-> "Evaluation completed",
                             confidence |-> lastCall.params.confidence]),
                       Some([evaluations |-> lastCall.params.evaluations]),
                       lastCall.at)

C11_Witness ==
    /\ lastCall.op = "recordEvaluationStep"
    /\ lastCall.params.confidence = Some(80)
    /\ lastCall.pre.status = "completed"
    /\ Len(lastCall.pre.steps) = 1
    /\ Len(execution.steps) = 2
    /\ execution.steps[2].decision[1].outcome = "evaluate"

\* What the constructor yields apart from the executionId
FreshExecution ==
    /\ execution.status = "in_progress"
    /\ execution.steps = <<>>
    /\ execution.createdAt = lastCall.at
    /\ execution.completedAt = Undefined
    /\ execution.duration = Undefined
    /\ execution.summary = Undefined
    /\ execution.name = lastCall.name

\* C12 as stated: createXRay(name, executionId?) yields status in_progress,
\* steps empty, createdAt = the clock at construction, completedAt, duration
\* and summary undefined, name as given, and executionId equal to the
\* caller-supplied value whenever one is supplied.
C12_AsStated ==
    lastCall.op = "constructor" =>
        /\ FreshExecution
        /\ IsDefined(lastCall.executionId) =>
               execution.executionId = lastCall.executionId[1]

\* C12 (amended): as C12, with executionId equal to the caller-supplied value
\* whenever a non-empty one is supplied; a generated id
\* "exec_<clock>_<random>" is used when none, or the empty string, is supplied.
C12_NonEmptyIdIsKept ==
    lastCall.op = "constructor" =>
        /\ FreshExecution
        /\ IF IsDefined(lastCall.executionId) /\ lastCall.executionId[1] # ""
           THEN execution.executionId = lastCall.executionId[1]
           ELSE \E rand \in RandomParts :
                    execution.executionId =
                        "exec_" \o ToString(lastCall.at) \o "_" \o rand

C12_Witness ==
    /\ lastCall.op = "constructor"
    /\ lastCall.executionId = Some("exec_custom")
    /\ execution.executionId = "exec_custom"
    /\ execution.createdAt = 1

\* C13: recordStep called when status is completed or failed still appends a
\* step with index = steps.length + 1 and timestamp = now, and leaves status,
\* completedAt, duration and summary unchanged.
C13_AppendAfterClose ==
    (lastCall.op = "recordStep" /\ lastCall.pre.status \in {"completed", "failed"}) =>
        LET n == Len(lastCall.pre.steps) IN
        /\ Len(execution.steps) = n + 1
        /\ execution.steps[n + 1].index = n + 1
        /\ execution.steps[n + 1].timestamp = lastCall.at
        /\ execution.steps[n + 1].step = lastCall.stepName
        /\ execution.status = lastCall.pre.status
        /\ execution.completedAt = lastCall.pre.completedAt
        /\ execution.duration = lastCall.pre.duration
        /\ execution.summary = lastCall.pre.summary

C13_Witness ==
    /\ lastCall.op = "recordStep"
    /\ lastCall.pre.status = "completed"
    /\ Len(lastCall.pre.steps) = 1
    /\ lastCall.at > lastCall.pre.completedAt[1]
    /\ Len(execution.steps) = 2

\* C14: markComplete on an already closed execution overwrites completedAt
\* (the clock at the second call), duration (recomputed from it) and summary
\* (totalSteps = current steps.length, finalOutcome = the second call's
\* argument, absent if omitted).
C14_SecondCompleteOverwrites ==
    (lastCall.op = "markComplete" /\ lastCall.pre.status # "in_progress") =>
        /\ execution.completedAt = Some(lastCall.at)
        /\ execution.duration = Some(lastCall.at - execution.createdAt)
        /\ execution.summary = Some([totalSteps   |-> Len(execution.steps),
                                     finalOutcome |-> lastCall.finalOutcome])

C14_Witness ==
    /\ lastCall.op = "markComplete"
    /\ lastCall.pre.status = "completed"
    /\ lastCall.pre.summary = Some([totalSteps |-> 0, finalOutcome |-> Some("done")])
    /\ lastCall.finalOutcome = Undefined
    /\ execution.summary = Some([totalSteps |-> 1, finalOutcome |-> Undefined])
    /\ execution.completedAt # lastCall.pre.completedAt

\* C15: from any status markComplete results in status completed and
\* markFailed in status failed; completed -> failed, failed -> completed and
\* repeated terminal calls all happen.
C15_UnguardedTransitions ==
    /\ lastCall.op = "markComplete" => execution.status = "completed"
    /\ lastCall.op = "markFailed" => execution.status = "failed"

\* completed -> failed -> completed: only markComplete writes a summary
C15_Witness ==
    /\ lastCall.op = "markComplete"
    /\ lastCall.pre.status = "failed"
    /\ IsDefined(lastCall.pre.summary)
    /\ execution.status = "completed"

C15_FailedTwice ==
    /\ lastCall.op = "markFailed"
    /\ lastCall.pre.status = "failed"
    /\ execution.status = "failed"

C15_CompletedTwice ==
    /\ lastCall.op = "markComplete"
    /\ lastCall.pre.status = "completed"
    /\ execution.status = "completed"

\* C16: no operation of the builder (recordStep, recordEvaluationStep,
\* markComplete, markFailed, serialize, getExecution) changes createdAt,
\* executionId or name.
C16_IdentityIsFixed ==
    lastCall.op # "constructor" =>
        /\ execution.createdAt = lastCall.pre.createdAt
        /\ execution.executionId = lastCall.pre.executionId
        /\ execution.name = lastCall.pre.name

C16_Witness ==
    /\ nCalls = 3
    /\ lastCall.op = "getExecution"
    /\ execution.status = "completed"
    /\ execution.createdAt = 1
    /\ execution.completedAt = Some(2)
    /\ Len(snapshots) = 1

\* C17: serialize changes no field of the execution, the value it returns
\* equals the execution's current state field by field, and two serialize
\* calls with no operation in between return equal values.
C17_SerializeIsPure ==
    lastCall.op = "serialize" =>
        /\ execution = lastCall.pre
        /\ Observed(lastCall.returned, execution) = execution
        /\ lastCall.prev.op = "serialize" =>
               Observed(lastCall.prev.returned, execution) =
                   Observed(lastCall.returned, execution)

C17_Witness ==
    /\ lastCall.op = "serialize"
    /\ lastCall.prev.op = "serialize"
    /\ IsDefined(execution.summary)
    /\ Len(snapshots) = 2

\* Snapshot i was taken just before an append and snapshot j just after it
AroundAppend(i, j) ==
    /\ snapshots[j].call = snapshots[i].call + 2
    /\ Len(snapshots[j].taken.steps) = Len(snapshots[i].taken.steps) + 1

WithoutSteps(e) == [e EXCEPT !.steps = <<>>]

\* C18 as stated: a snapshot taken with serialize before an additional append
\* is unaffected by it: the earlier snapshot still shows the old steps, and
\* the snapshots before and after the append differ only in steps.
C18_AsStated ==
    \A i, j \in 1..Len(snapshots) :
        AroundAppend(i, j) =>
            /\ Observed(snapshots[i].returned, execution).steps =
                   snapshots[i].taken.steps
            /\ Observed(snapshots[i].returned, execution).steps #
                   Observed(snapshots[j].returned, execution).steps
            /\ WithoutSteps(Observed(snapshots[i].returned, execution)) =
                   WithoutSteps(Observed(snapshots[j].returned, execution))

\* C18 (amended): serialize returns the builder's live execution object, not
\* a copy: a snapshot taken before an additional append shows the appended
\* step as well, so the snapshots taken before and after the append are equal
\* in every field, steps included.
C18_SnapshotsAreLive ==
    \A i \in 1..Len(snapshots) :
        Observed(snapshots[i].returned, execution) = execution

C18_Witness ==
    /\ Len(snapshots) = 2
    /\ AroundAppend(1, 2)
    /\ snapshots[1].taken.steps = <<>>
    /\ Len(Observed(snapshots[1].returned, execution).steps) = 1

\* C23: create "Demo"; recordStep "a"; recordStep "b" with decision
\* {outcome: "filter", reason: "r", confidence: 0.8}; markComplete("done")
\* ends with steps.length = 2, steps[0].index = 1, steps[1].index = 2,
\* status completed and summary = {totalSteps: 2, finalOutcome: "done"}.
C23_CompletedScenario ==
    (/\ nCalls = 3
     /\ execution.name = "Demo"
     /\ lastCall.op = "markComplete"
     /\ lastCall.finalOutcome = Some("done")
     /\ recorded = <<[op |-> "recordStep", reasoning |-> "did a"],
                     [op |-> "recordStep", reasoning |-> "did a"]>>
     /\ lastCall.pre.steps[1].step = "a"
     /\ lastCall.pre.steps[1].decision = Undefined
     /\ lastCall.pre.steps[2].step = "b"
     /\ lastCall.pre.steps[2].decision =
            Some([outcome |-> "filter", reason |-> "r", confidence |-> Some(80)]))
    => /\ Len(execution.steps) = 2
       /\ execution.steps[1].index = 1
       /\ execution.steps[2].index = 2
       /\ execution.status = "completed"
       /\ execution.summary = Some([totalSteps |-> 2, finalOutcome |-> Some("done")])

C23_Witness ==
    /\ nCalls = 3
    /\ lastCall.op = "markComplete"
    /\ lastCall.finalOutcome = Some("done")
    /\ Len(recorded) = 2
    /\ recorded[1].op = "recordStep" /\ recorded[2].op = "recordStep"
    /\ execution.steps[1].step = "a"
    /\ execution.steps[1].decision = Undefined
    /\ execution.steps[2].step = "b"
    /\ execution.steps[2].decision =
           Some([outcome |-> "filter", reason |-> "r", confidence |-> Some(80)])
    /\ execution.status = "completed"
    /\ execution.summary = Some([totalSteps |-> 2, finalOutcome |-> Some("done")])

\* C25: whenever summary is defined, summary.totalSteps <= steps.length;
\* equality holds immediately after markComplete and is lost as soon as a
\* step is appended after closing: neither recordStep (nor
\* recordEvaluationStep) nor markFailed recomputes the summary.
C25_SummaryCountsAtMostSteps ==
    /\ IsDefined(execution.summary) =>
           execution.summary[1].totalSteps <= Len(execution.steps)
    /\ lastCall.op = "markComplete" =>
           execution.summary[1].totalSteps = Len(execution.steps)
    /\ (IsAppend(lastCall.op) /\ IsDefined(lastCall.pre.summary)) =>
           /\ execution.summary = lastCall.pre.summary
           /\ execution.summary[1].totalSteps < Len(execution.steps)
    /\ lastCall.op = "markFailed" => execution.summary = lastCall.pre.summary

C25_Witness ==
    /\ lastCall.op = "recordStep"
    /\ lastCall.pre.status = "completed"
    /\ lastCall.pre.summary[1].totalSteps = Len(lastCall.pre.steps)
    /\ execution.summary[1].totalSteps = 1
    /\ Len(execution.steps) = 2

\* C26: markFailed never writes or clears summary: in a state with status
\* failed, summary is defined if and only if markComplete was called earlier
\* on the same execution, and it then holds the totalSteps and finalOutcome
\* of the most recent markComplete.
C26_FailedKeepsSummary ==
    /\ lastCall.op = "markFailed" => execution.summary = lastCall.pre.summary
    /\ execution.status = "failed" =>
           /\ IsDefined(execution.summary) <=> IsDefined(lastCompletion)
           /\ execution.summary = lastCompletion

C26_Witness ==
    /\ lastCall.op = "markFailed"
    /\ execution.status = "failed"
    /\ lastCall.pre.status = "completed"
    /\ lastCompletion = Some([totalSteps |-> 1, finalOutcome |-> Some("done")])
    /\ execution.summary = lastCompletion
    /\ Len(execution.steps) = 1

\* C26, the other direction: failed without any markComplete before
C26_WitnessNoSummary ==
    /\ execution.status = "failed"
    /\ lastCompletion = Undefined
    /\ execution.summary = Undefined
    /\ nCalls = 3

\* C27: status is always one of in_progress, completed, failed; once it has
\* left in_progress no builder operation returns it to in_progress; and
\* completedAt and duration, once defined, never become undefined again.
C27_NeverReopens ==
    /\ execution.status \in {"in_progress", "completed", "failed"}
    /\ lastCall.op # "constructor" =>
        /\ lastCall.pre.status # "in_progress" => execution.status # "in_progress"
        /\ IsDefined(lastCall.pre.completedAt) => IsDefined(execution.completedAt)
        /\ IsDefined(lastCall.pre.duration) => IsDefined(execution.duration)

C27_Witness ==
    /\ nCalls = 3
    /\ IsAppend(lastCall.op)
    /\ lastCall.pre.status = "failed"
    /\ Len(lastCall.pre.steps) = 1
    /\ execution.status = "failed"
    /\ IsDefined(execution.completedAt)
    /\ IsDefined(execution.duration)

\* C28: markFailed called with no error argument, or with the empty string,
\* changes no step at all, whatever the number of steps: it changes only
\* status, completedAt and duration.
C28_NoErrorTouchesNoStep ==
    (/\ lastCall.op = "markFailed"
     /\ lastCall.error \in {Undefined, Some("")})
    => /\ execution.steps = lastCall.pre.steps
       /\ execution = [lastCall.pre EXCEPT
                          !.status      = "failed",
                          !.completedAt = Some(lastCall.at),
                          !.duration    = Some(lastCall.at - lastCall.pre.createdAt)]

C28_Witness ==
    /\ lastCall.op = "markFailed"
    /\ lastCall.error = Some("")
    /\ Len(lastCall.pre.steps) = 2
    /\ execution.steps = lastCall.pre.steps
    /\ execution.status = "failed"
    /\ lastCall.pre.status = "in_progress"

\* C29: under a non-decreasing clock, step timestamps are non-decreasing in
\* index order and every step's timestamp is >= createdAt, in every reachable
\* state; a step appended after closing can carry a timestamp greater than
\* completedAt.
C29_TimestampsOrdered ==
    /\ \A i \in 1..Len(execution.steps) :
        /\ execution.steps[i].timestamp >= execution.createdAt
        /\ i > 1 => execution.steps[i - 1].timestamp <= execution.steps[i].timestamp
    /\ IsAppend(lastCall.op) =>
        execution.steps[Len(execution.steps)].timestamp = lastCall.at

\* a step stamped after the close
C29_Witness ==
    /\ execution.createdAt = 1
    /\ Len(execution.steps) = 2
    /\ execution.steps[1].timestamp = 1
    /\ execution.steps[2].timestamp = 2
    /\ execution.completedAt = Some(1)
    /\ execution.steps[2].timestamp > execution.completedAt[1]

----------------------------------------------------------------------------
(* Properties of the storage side *)

Done(r, kind) == requests[r].kind = kind /\ requests[r].pc = "done"

\* C19: the store never holds two documents with the same executionId: a
\* POST whose executionId equals that of a stored document is answered with
\* status 500 and leaves the stored documents unchanged, for any sequence and
\* interleaving of save requests.
C19_UniqueExecutionIds ==
    /\ \A i, j \in 1..Len(collection) :
        i # j => collection[i].executionId # collection[j].executionId
    /\ \A r \in 1..Len(requests) :
        (/\ Done(r, "POST")
         /\ \E i \in 1..Len(requests[r].before) :
                requests[r].before[i].executionId = requests[r].body[1].executionId)
        => /\ requests[r].response[1].status = 500
           /\ requests[r].after = requests[r].before

\* The request that arrived first is the one rejected
C19_Witness ==
    /\ Len(requests) = 2
    /\ Done(1, "POST") /\ Done(2, "POST")
    /\ requests[1].body[1].executionId = requests[2].body[1].executionId
    /\ requests[1].response[1].status = 500
    /\ requests[2].response[1].status = 201
    /\ Len(collection) = 1

\* C20: GET /api/xray/executions returns stored executions ordered by
\* createdAt descending, at most 50 of them, and when more than 50 are stored
\* the 50 with the greatest createdAt.
C20_ListNewestFifty ==
    \A r \in 1..Len(requests) :
        Done(r, "GET") =>
            LET stored   == requests[r].before
                returned == requests[r].response[1].body
                Returned(i) == \E k \in 1..Len(returned) : returned[k] = stored[i]
            IN  /\ requests[r].response[1].status = 200
                /\ Len(returned) <= 50
                /\ Len(returned) = IF Len(stored) > 50 THEN 50 ELSE Len(stored)
                /\ \A k \in 1..(Len(returned) - 1) :
                       returned[k].createdAt >= returned[k + 1].createdAt
                /\ \A k \in 1..Len(returned) :
                       \E i \in 1..Len(stored) : stored[i] = returned[k]
                /\ \A k, l \in 1..Len(returned) :
                       k # l => returned[k]._id # returned[l]._id
                /\ \A i \in 1..Len(stored) :
                       ~Returned(i) =>
                           \A k \in 1..Len(returned) :
                               stored[i].createdAt <= returned[k].createdAt

C20_Witness ==
    /\ Done(1, "GET")
    /\ Len(collection) = 51
    /\ collection[1].createdAt = 1
    /\ collection[51].createdAt = 51
    /\ Len(requests[1].response[1].body) = 50
    /\ requests[1].response[1].body[1].createdAt = 51
    /\ requests[1].response[1].body[50].createdAt = 2

\* An identifier new ObjectId takes: 24 hex digits
WellFormedId(id) == Len(id) = 24 /\ \A i \in 1..Len(id) : IsHexDigit(id[i])

\* The identifier names this stored document, whatever the case of its digits
NamesDocument(id, doc) ==
    WellFormedId(id) /\ UpperCase(id) = UpperCase(ToHexString(doc._id[1]))

C21_WitnessNotFound ==
    /\ Done(1, "LOOKUP")
    /\ requests[1].body[1] = ToHexString(12)
    /\ Len(collection) = 11
    /\ requests[1].response[1].status = 404

C21_WitnessInvalid ==
    /\ Done(1, "LOOKUP")
    /\ requests[1].body[1] = ToHexString(10) \o <<"0">>
    /\ requests[1].response[1].status = 400

\* A save request the server has answered
Answered(r) == requests[r].kind = "POST" /\ requests[r].pc \in {"done", "settled"}

\* C22 as stated: save assigns a storage identifier only if the snapshot
\* does not already carry one: a snapshot posted with an _id is persisted
\* under that same identifier, and one without is persisted under a newly
\* assigned identifier, which is returned to the caller.
C22_AsStated ==
    \A r \in 1..Len(requests) :
        (Answered(r) /\ IsDefined(requests[r].response) /\ requests[r].response[1].status = 201) =>
            LET snapshot == requests[r].body[1]
                saved    == requests[r].after[Len(requests[r].after)]
            IN  /\ Len(requests[r].after) = Len(requests[r].before) + 1
                /\ IF IsDefined(snapshot._id)
                   THEN ToHexString(saved._id[1]) = snapshot._id[1]
                   ELSE /\ \A i \in 1..Len(requests[r].before) :
                               requests[r].before[i]._id # saved._id
                        /\ requests[r].pc = "settled" =>
                               requests[r].returned =
                                   Some([threw |-> FALSE,
                                         value |-> ToHexString(saved._id[1])])

\* C22 (amended): save always assigns a new storage identifier, whether or
\* not the snapshot carries one: a snapshot the store accepts is persisted,
\* with the executionId, name, status and steps it came with, under the
\* identifier generated for the request, and that identifier is returned to
\* the caller as a string; a snapshot the store does not accept (duplicate
\* executionId, database unreachable) leaves the store unchanged and
\* saveExecution throws.
C22_AlwaysNewId ==
    \A r \in 1..Len(requests) :
        (Answered(r) /\ IsDefined(requests[r].response)) =>
            LET snapshot == requests[r].body[1]
                before   == requests[r].before
                after    == requests[r].after
            IN  IF requests[r].response[1].status = 201
                THEN /\ Len(after) = Len(before) + 1
                     /\ SubSeq(after, 1, Len(before)) = before
                     /\ after[Len(after)]._id = requests[r].objectId
                     /\ \A i \in 1..Len(before) : before[i]._id # after[Len(after)]._id
                     /\ after[Len(after)].executionId = snapshot.executionId
                     /\ after[Len(after)].name = snapshot.name
                     /\ after[Len(after)].status = snapshot.status
                     /\ after[Len(after)].steps = snapshot.steps
                     /\ requests[r].pc = "settled" =>
                            /\ requests[r].returned =
                                   Some([threw |-> FALSE,
                                         value |-> ToHexString(after[Len(after)]._id[1])])
                            /\ ParseObjectId(requests[r].returned[1].value) =
                                   after[Len(after)]._id
                ELSE /\ requests[r].response[1].status = 500
                     /\ after = before
                     /\ requests[r].pc = "settled" => requests[r].returned[1].threw

\* a snapshot carrying the _id ...07 is stored under the new identifier ...02
C22_Witness ==
    /\ Len(requests) = 1
    /\ requests[1].pc = "settled"
    /\ requests[1].body[1]._id = Some(ToHexString(7))
    /\ IsDefined(requests[1].response)
    /\ requests[1].response[1].status = 201
    /\ Len(collection) = 2
    /\ collection[2]._id = Some(2)
    /\ collection[2].executionId = Some("exec_new")
    /\ requests[1].returned = Some([threw |-> FALSE, value |-> ToHexString(2)])

\* C24: the storage connection is a singleton: between two closeDatabase
\* calls at most one MongoClient is ever created, even when several request
\* handlers call getExecutionsCollection concurrently before the first
\* connect has finished; after closeDatabase the cache is empty and the next
\* use creates a new client.
C24_SingletonConnection ==
    /\ clientsCreated - clientsAtClose <= 1
    /\ \A r \in 1..Len(requests) :
        (requests[r].kind = "CLOSE" /\ requests[r].pc = "done") =>
            requests[r].response =
                Some([cachedClient |-> Undefined, cachedDb |-> Undefined])
    /\ \A r \in 1..Len(requests) :
        (requests[r].kind = "GET" /\ requests[r].pc = "connecting") =>
            /\ IsDefined(requests[r].client)
            /\ requests[r].client[1] <= clientsCreated

\* Two handlers, no closeDatabase: each has constructed its own MongoClient,
\* and the cache holds the one that connected last
C24_TwoClients ==
    /\ Closes = 0
    /\ Len(requests) = 2
    /\ requests[1].client = Some(1)
    /\ requests[2].client = Some(2)
    /\ requests[1].pc = "done" /\ requests[2].pc = "done"
    /\ requests[1].response[1].status = 200
    /\ requests[2].response[1].status = 200
    /\ clientsCreated = 2
    /\ clientsAtClose = 0

----------------------------------------------------------------------------
(* Properties of the dashboard page *)

\* C30: every invocation of runDemo eventually ends the running state: after
\* the demo request settles (success response, error response or network
\* failure) either the page is reloaded or isRunning is reset to false, so
\* the "Run Demo Execution" button never stays disabled forever.
C30_RunningEnds == isRunning ~> ~isRunning

\* The demo request was answered 500 and runDemo has ended: isRunning is
\* still true and there was no reload
C30_StuckRunning ==
    /\ Len(requests) = 1
    /\ requests[1].pc = "settled"
    /\ IsDefined(requests[1].response)
    /\ requests[1].response[1].status = 500
    /\ requests[1].returned = Some([threw |-> FALSE, ok |-> FALSE])
    /\ isRunning
    /\ reloads = 0
    /\ ~ENABLED DemoNext

====
